---- MODULE Spec2Model ----
(***************************************************************************)
(* Model of the ADMS attendance ingestion pipeline of                      *)
(* app/routers/adms.py and of the replay script                            *)
(* app/scripts/reparse_adms_raw.py.                                        *)
(*                                                                         *)
(* Text is modelled as a sequence of tokens.  A token is either one of the *)
(* separator characters the code inspects (tab, newline, blank, comma,     *)
(* "=", "&") or a word the code never looks inside ("ATTLOG", "table",     *)
(* "PIN", a user id "1001", a date "2024-01-31", a time of day             *)
(* "08:00:00", ...).                                                       *)
(*                                                                         *)
(* A Python value that is None, a str or a list of str is modelled as a    *)
(* sequence of texts: None is the empty sequence, a str is a sequence of   *)
(* one text, a list is a sequence of two or more texts (the handlers       *)
(* flatten every one-element list to its element, and parse_qs never       *)
(* yields an empty list).                                                  *)
(***************************************************************************)
EXTENDS Integers, Sequences, FiniteSets, TLC

\* ------------------------------------------------------------------------
\* Python str helpers on token sequences
\* ------------------------------------------------------------------------

\* str.strip()/str.split() whitespace
WS == {" ", "\t", "\n"}

None == <<>>

\* a Python str value holding text s
Str(s) == <<s>>

\* Python truthiness of None / str / list
truthy(v) == v # None /\ v # Str(<<>>)

RECURSIVE rstrip_set(_, _)
rstrip_set(s, chars) ==
    IF s # <<>> /\ s[Len(s)] \in chars
    THEN rstrip_set(SubSeq(s, 1, Len(s) - 1), chars)
    ELSE s

RECURSIVE lstrip_set(_, _)
lstrip_set(s, chars) ==
    IF s # <<>> /\ s[1] \in chars THEN lstrip_set(Tail(s), chars) ELSE s

\* str.rstrip()
rstrip(s) == rstrip_set(s, WS)

\* str.strip()
strip(s) == lstrip_set(rstrip_set(s, WS), WS)

\* c in s, for a one-character c
contains(s, c) == \E i \in 1..Len(s) : s[i] = c

\* index of the first element of s that is in chars, 0 when there is none
RECURSIVE find_from(_, _, _)
find_from(s, chars, i) ==
    IF i > Len(s) THEN 0
    ELSE IF s[i] \in chars THEN i
    ELSE find_from(s, chars, i + 1)

\* str.split(sep) for a one-character sep: always at least one piece
RECURSIVE split(_, _)
split(s, sep) ==
    LET i == find_from(s, {sep}, 1) IN
    IF i = 0 THEN <<s>>
    ELSE <<SubSeq(s, 1, i - 1)>> \o split(SubSeq(s, i + 1, Len(s)), sep)

\* str.split(sep, 1)
split1(s, sep) ==
    LET i == find_from(s, {sep}, 1) IN
    IF i = 0 THEN <<s>>
    ELSE <<SubSeq(s, 1, i - 1), SubSeq(s, i + 1, Len(s))>>

\* str.split(): pieces between runs of whitespace, no empty piece
RECURSIVE split_ws(_)
split_ws(s) ==
    LET t == lstrip_set(s, WS) IN
    IF t = <<>> THEN <<>>
    ELSE LET i == find_from(t, WS, 1) IN
         IF i = 0 THEN <<t>>
         ELSE <<SubSeq(t, 1, i - 1)>> \o split_ws(SubSeq(t, i + 1, Len(t)))

\* sep.join(parts)
RECURSIVE join(_, _)
join(parts, sep) ==
    IF parts = <<>> THEN <<>>
    ELSE IF Len(parts) = 1 THEN parts[1]
    ELSE parts[1] \o sep \o join(Tail(parts), sep)

\* str.replace(a, b) for one-character a and b
replace(s, a, b) == [i \in 1..Len(s) |-> IF s[i] = a THEN b ELSE s[i]]

\* str.splitlines(): a trailing newline opens no further line
RECURSIVE splitlines(_)
splitlines(s) ==
    IF s = <<>> THEN <<>>
    ELSE LET i == find_from(s, {"\n"}, 1) IN
         IF i = 0 THEN <<s>>
         ELSE <<SubSeq(s, 1, i - 1)>> \o splitlines(SubSeq(s, i + 1, Len(s)))

\* str.upper() on the words the code upper-cases
upper(s) ==
    [i \in 1..Len(s) |-> IF s[i] \in {"attlog", "Attlog"} THEN "ATTLOG" ELSE s[i]]

\* str(v) of a str or a list of str (the list's repr)
str(v) ==
    IF v = None THEN <<"None">>
    ELSE IF Len(v) = 1 THEN v[1]
    ELSE <<"[">> \o join(v, <<",", " ">>) \o <<"]">>

\* position of the literal "ATTLOG=" in s, 0 when absent
RECURSIVE find_marker(_, _)
find_marker(s, i) ==
    IF i + 1 > Len(s) THEN 0
    ELSE IF s[i] = "ATTLOG" /\ s[i + 1] = "=" THEN i
    ELSE find_marker(s, i + 1)

\* "ATTLOG=" in s
has_marker(s) == find_marker(s, 1) # 0

\* s.split("ATTLOG=", 1)[1]
after_marker(s) == SubSeq(s, find_marker(s, 1) + 2, Len(s))

\* dict.get(k) with None for a missing key; dicts are functions on texts
get(d, k) == IF k \in DOMAIN d THEN d[k] ELSE None

\* the dict {k: v}
Dict1(k, v) == [x \in {k} |-> v]

\* d with d[k] = v
put(d, k, v) == [x \in DOMAIN d \cup {k} |-> IF x = k THEN v ELSE d[x]]

\* a key made of one word
K(w) == <<w>>

\* ------------------------------------------------------------------------
\* Protocol parser
\* ------------------------------------------------------------------------

\* date and time-of-day words datetime.fromisoformat accepts
Dates == {"2024-01-31"}
Times == {"08:00:00", "09:15:00"}

\* datetime.fromisoformat(t) succeeds: a date, or a date, "T" and a time
iso_ok(t) ==
    \/ Len(t) = 1 /\ t[1] \in Dates
    \/ Len(t) = 3 /\ t[1] \in Dates /\ t[2] = "T" /\ t[3] \in Times

\* datetime.isoformat(sep=" ") of the parsed instant; a bare date is midnight
isoformat(t) == IF Len(t) = 1 THEN <<t[1], " ", "00:00:00">> ELSE <<t[1], " ", t[3]>>

\* ts_fmt = dt_str; try: ts_fmt = fromisoformat(" ".join(dt_str.split())
\*   .replace(" ", "T")).isoformat(sep=" ") except Exception: pass
\* (None and a list have no split(): the exception leaves them unchanged)
normalize_ts(v) ==
    IF Len(v) # 1 THEN v
    ELSE LET t == replace(join(split_ws(v[1]), <<" ">>), " ", "T") IN
         IF iso_ok(t) THEN Str(isoformat(t)) ELSE v

\* while parts and parts[-1] == "": parts.pop()
RECURSIVE drop_trailing_empty(_)
drop_trailing_empty(parts) ==
    IF parts # <<>> /\ parts[Len(parts)] = <<>>
    THEN drop_trailing_empty(SubSeq(parts, 1, Len(parts) - 1))
    ELSE parts

\* tsv_field reading one field too early
tsv_field_off_by_one(parts, i) == IF Len(parts) > i THEN Str(strip(parts[i])) ELSE None

\* parts[i].strip() if len(parts) > i else None   (i is the Python index)
tsv_field(parts, i) == IF Len(parts) > i THEN Str(strip(parts[i + 1])) ELSE None

EmptyExt == [k \in {} |-> None]

\* tsv_event with the top-level fields at the positions of the short encoding
tsv_event_short_positions(parts) ==
    LET ext == [verified |-> tsv_field(parts, 2), status |-> tsv_field(parts, 3),
                punch |-> tsv_field(parts, 4), workcode |-> tsv_field(parts, 5),
                c7 |-> tsv_field(parts, 6), c8 |-> tsv_field(parts, 7),
                c9 |-> tsv_field(parts, 8)]
    IN [user_id |-> Str(strip(parts[1])),
        timestamp |-> normalize_ts(Str(strip(parts[2]))),
        status |-> tsv_field(parts, 2), punch |-> tsv_field(parts, 3),
        workcode |-> tsv_field(parts, 4),
        ext |-> ext]

\* the event of the extended (tab-separated) encoding
tsv_event(parts) ==
    LET ext == [verified |-> tsv_field(parts, 2), status |-> tsv_field(parts, 3),
                punch |-> tsv_field(parts, 4), workcode |-> tsv_field(parts, 5),
                c7 |-> tsv_field(parts, 6), c8 |-> tsv_field(parts, 7),
                c9 |-> tsv_field(parts, 8)]
    IN [user_id |-> Str(strip(parts[1])),
        timestamp |-> normalize_ts(Str(strip(parts[2]))),
        status |-> ext.status, punch |-> ext.punch, workcode |-> ext.workcode,
        ext |-> ext]

\* csv_field padding with the empty string
csv_field_padded_empty(parts, i) ==
    IF Len(parts) >= i THEN Str(strip(parts[i])) ELSE Str(<<>>)

\* parts = [p.strip() for p in raw.split(",")], padded with None to 5 fields
csv_field(parts, i) == IF Len(parts) >= i THEN Str(strip(parts[i])) ELSE None

\* the event of the short (comma-separated) encoding
csv_event(parts) ==
    [user_id |-> csv_field(parts, 1),
     timestamp |-> normalize_ts(csv_field(parts, 2)),
     status |-> csv_field(parts, 3), punch |-> csv_field(parts, 4),
     workcode |-> csv_field(parts, 5),
     ext |-> EmptyExt]

\* _parse_attlog_line: None (the empty sequence) or a sequence of one event
parse_attlog_line(line) ==
    LET raw == rstrip_set(rstrip(line), {","}) IN
    IF raw = <<>> THEN None
    ELSE IF contains(raw, "\t") /\ ~contains(raw, ",")
    THEN LET parts == drop_trailing_empty(split(raw, "\t")) IN
         IF Len(parts) >= 2 THEN <<tsv_event(parts)>> ELSE None
    ELSE <<csv_event(split(raw, ","))>>

\* the events of the candidate lines up to the first that yields none
RECURSIVE parse_lines_until_invalid(_)
parse_lines_until_invalid(lines) ==
    IF lines = <<>> \/ parse_attlog_line(lines[1]) = None THEN <<>>
    ELSE parse_attlog_line(lines[1]) \o parse_lines_until_invalid(Tail(lines))

\* the events of the candidate lines, the last line's first
RECURSIVE parse_lines_reversed(_)
parse_lines_reversed(lines) ==
    IF lines = <<>> THEN <<>>
    ELSE parse_lines_reversed(Tail(lines)) \o parse_attlog_line(lines[1])

\* the events of a list of candidate lines, in order
RECURSIVE parse_lines(_)
parse_lines(lines) ==
    IF lines = <<>> THEN <<>>
    ELSE parse_attlog_line(lines[1]) \o parse_lines(Tail(lines))

\* for raw_line in raw_lines: for line in str(raw_line).splitlines()
RECURSIVE all_lines(_)
all_lines(raw_lines) ==
    IF raw_lines = <<>> THEN <<>>
    ELSE splitlines(raw_lines[1]) \o all_lines(Tail(raw_lines))

\* str(query.get("table", "")).upper() == "ATTLOG"
table_is_attlog(query) ==
    upper(str(IF K("table") \in DOMAIN query THEN query[K("table")] ELSE Str(<<>>)))
        = <<"ATTLOG">>

\* the lines of the body that carry the marker, each cut after it
RECURSIVE marker_lines(_)
marker_lines(lines) ==
    IF lines = <<>> THEN <<>>
    ELSE (IF has_marker(lines[1]) THEN <<after_marker(lines[1])>> ELSE <<>>)
         \o marker_lines(Tail(lines))

\* the events _maybe_parse_attlog takes from the query
query_events(query) ==
    IF table_is_attlog(query)
    THEN LET raw == get(query, K("ATTLOG"))
             raw_lines == IF Len(raw) >= 2 THEN raw
                          ELSE IF truthy(raw) THEN <<raw[1]>> ELSE <<>>
         IN parse_lines(all_lines(raw_lines))
    ELSE <<>>

\* the events _maybe_parse_attlog takes from the body
body_events(query, bt) ==
    IF has_marker(bt) THEN parse_lines(marker_lines(splitlines(bt)))
    ELSE IF table_is_attlog(query) /\ (contains(bt, "\t") \/ contains(bt, "\n"))
    THEN parse_lines(splitlines(bt))
    ELSE <<>>

\* _maybe_parse_attlog
maybe_parse_attlog(query, body_text) ==
    query_events(query) \o body_events(query, body_text)

\* a or b
py_or(a, b) == IF truthy(a) THEN a ELSE b

\* sn = query.get("SN") or query.get("sn") or query.get("SerialNumber")
serial_of(query) ==
    py_or(py_or(get(query, K("SN")), get(query, K("sn"))), get(query, K("SerialNumber")))

\* str(x) if x is not None else None
str_or_none(v) == IF v # None THEN Str(str(v)) ELSE None

\* _parse_rtlog: None or a sequence of one event
parse_rtlog(payload) ==
    LET pin  == py_or(get(payload, K("PIN")), get(payload, K("pin")))
        tstr == py_or(get(payload, K("Time")), get(payload, K("time")))
        st   == py_or(get(payload, K("Status")), get(payload, K("status")))
        wc   == py_or(get(payload, K("Workcode")), get(payload, K("workcode")))
    IN IF ~truthy(pin) \/ ~truthy(tstr) THEN None
       ELSE <<[user_id |-> Str(str(pin)),
               timestamp |-> normalize_ts(tstr),
               status |-> str_or_none(st),
               punch |-> None,
               workcode |-> str_or_none(wc),
               ext |-> EmptyExt]>>

\* urllib.parse.parse_qs(body, keep_blank_values=True) followed by the
\* handlers' flattening of one-element lists: name -> value(s), in order
RECURSIVE parse_pairs(_, _)
parse_pairs(pairs, acc) ==
    IF pairs = <<>> THEN acc
    ELSE IF pairs[1] = <<>> THEN parse_pairs(Tail(pairs), acc)
    ELSE LET nv == split1(pairs[1], "=")
             name == nv[1]
             value == IF Len(nv) = 2 THEN nv[2] ELSE <<>>
         IN parse_pairs(Tail(pairs), put(acc, name, get(acc, name) \o <<value>>))

EmptyDict == [k \in {} |-> None]

parse_qs(body) == parse_pairs(split(body, "&"), EmptyDict)

\* for k, v in form.items(): q.setdefault(k, v)
merge_form(q, form) ==
    [k \in DOMAIN q \cup DOMAIN form |-> IF k \in DOMAIN q THEN q[k] ELSE form[k]]

\* the query the push handlers hand to _ingest
merged_query(q, is_form, body) ==
    IF is_form /\ body # <<>> THEN merge_form(q, parse_qs(body)) ELSE q

\* ev_norm = {"ts_ingest": ts, "sn": sn, **ev, "raw_source": request_path}
ev_norm(ts, sn, ev, path) ==
    [ts_ingest |-> ts, sn |-> sn, user_id |-> ev.user_id, timestamp |-> ev.timestamp,
     status |-> ev.status, punch |-> ev.punch, workcode |-> ev.workcode,
     ext |-> ev.ext, raw_source |-> path]

RECURSIVE norm_events(_, _, _, _)
norm_events(ts, sn, evs, path) ==
    IF evs = <<>> THEN <<>>
    ELSE <<ev_norm(ts, sn, evs[1], path)>> \o norm_events(ts, sn, Tail(evs), path)

\* ------------------------------------------------------------------------
\* Files
\* ------------------------------------------------------------------------

\* _ts(): the instant t (microseconds) in the format %Y%m%dT%H%M%S%fZ
ts_text(t) == <<ToString(t), "Z">>

\* a raw capture file that was opened for writing and not yet written
EmptyFile == [empty |-> TRUE]

\* raw_payload = {"ts": ts, "path": request_path, "query": query, "body": body}
raw_payload(t, path, query, body) ==
    [ts |-> ts_text(t), path |-> path, query |-> query, body |-> body]

\* the header row of attlog.csv
csv_header ==
    <<K("ts_ingest"), K("sn"), K("user_id"), K("timestamp"), K("status"), K("punch"),
      K("workcode"), K("ext_verified"), K("ext_status"), K("ext_punch"),
      K("ext_workcode"), K("ext_c7"), K("ext_c8"), K("ext_c9"), K("raw_source")>>

\* csv.writer's text of one field: None is written as the empty field
csv_text(v) == IF v = None THEN <<>> ELSE str(v)

\* ev.get("ext", {}).get(k)
ext_get(ev, k) == IF k \in DOMAIN ev.ext THEN ev.ext[k] ELSE None

\* the row _append_csv_row writes for ev
csv_row(ev) ==
    <<csv_text(ev.ts_ingest), csv_text(ev.sn), csv_text(ev.user_id),
      csv_text(ev.timestamp), csv_text(ev.status), csv_text(ev.punch),
      csv_text(ev.workcode), csv_text(ext_get(ev, "verified")),
      csv_text(ext_get(ev, "status")), csv_text(ext_get(ev, "punch")),
      csv_text(ext_get(ev, "workcode")), csv_text(ext_get(ev, "c7")),
      csv_text(ext_get(ev, "c8")), csv_text(ext_get(ev, "c9")),
      csv_text(ev.raw_source)>>

\* The tabular log is a sequence of equal-sized blocks of bytes.  The header
\* line is longer than a data row and shorter than two.
HeaderBlocks == 3
RowBlocks == 2

line_blocks(line) == IF line = csv_header THEN HeaderBlocks ELSE RowBlocks

\* the blocks of one line
blocks_of(line) == [k \in 1..line_blocks(line) |-> [line |-> line, k |-> k]]

\* a write of data at offset 0 of a file opened with "w": it replaces the
\* bytes it covers and keeps what lies behind them
write_at_start(content, data) ==
    data \o SubSeq(content, Len(data) + 1, Len(content))

\* a write to a file opened with "a": at the end of the file
write_at_end(content, data) == content \o data

\* the file starts with a whole line
whole_line_at_start(content) ==
    /\ content # <<>>
    /\ content[1].k = 1
    /\ Len(content) >= line_blocks(content[1].line)
    /\ \A i \in 1..line_blocks(content[1].line) :
          content[i] = [line |-> content[1].line, k |-> i]

\* what is left of a line that was partly overwritten
Torn == <<K("<torn>")>>

\* the lines a reader of the tabular log finds
RECURSIVE csv_lines(_)
csv_lines(content) ==
    IF content = <<>> THEN <<>>
    ELSE IF whole_line_at_start(content)
    THEN <<content[1].line>>
         \o csv_lines(SubSeq(content, line_blocks(content[1].line) + 1, Len(content)))
    ELSE <<Torn>> \o csv_lines(Tail(content))

\* sorted(files)
RECURSIVE sorted(_)
sorted(S) ==
    IF S = {} THEN <<>>
    ELSE LET m == CHOOSE x \in S : \A y \in S : x <= y IN <<m>> \o sorted(S \ {m})

\* ------------------------------------------------------------------------
\* Exports
\* ------------------------------------------------------------------------

\* A line of the record log is modelled by the value json.loads gives for it.
\* A line that holds only part of the bytes of a record has no value: no
\* proper part of a line written by _append_ndjson is JSON.
torn(ev) == [torn |-> ev]

\* a line that holds JSON other than an object (a number, null, a list)
scalar(w) == [scalar |-> w]

\* json_loads completing a partly written record
json_loads_lenient(line) ==
    IF "torn" \in DOMAIN line THEN <<line.torn>> ELSE <<line>>

\* json.loads(line): the empty sequence when it raises, else the value
json_loads(line) == IF "torn" \in DOMAIN line THEN <<>> ELSE <<line>>

\* the value is a dict
is_dict(v) == "scalar" \notin DOMAIN v

\* ev.get(k) of a dict with string keys
dict_get(ev, k) == IF k \in DOMAIN ev THEN ev[k] ELSE None

\* ev_flat of export_json and export_csv; ext = ev.get("ext") or {}
ev_flat(ev) ==
    LET ext == dict_get(ev, "ext") IN
    [ts_ingest |-> dict_get(ev, "ts_ingest"), sn |-> dict_get(ev, "sn"),
     user_id |-> dict_get(ev, "user_id"), timestamp |-> dict_get(ev, "timestamp"),
     status |-> dict_get(ev, "status"), punch |-> dict_get(ev, "punch"),
     workcode |-> dict_get(ev, "workcode"),
     ext_verified |-> dict_get(ext, "verified"), ext_status |-> dict_get(ext, "status"),
     ext_punch |-> dict_get(ext, "punch"), ext_workcode |-> dict_get(ext, "workcode"),
     ext_c7 |-> dict_get(ext, "c7"), ext_c8 |-> dict_get(ext, "c8"),
     ext_c9 |-> dict_get(ext, "c9"), raw_source |-> dict_get(ev, "raw_source")]

\* the words of timestamps and bounds in the order of Python's str comparison
WordOrder ==
    <<" ", "00:00:00", "08:00:00", "08:30:00", "09:15:00", "2024-01-31", "None",
      "soon">>

rank(w) == CHOOSE i \in 1..Len(WordOrder) : WordOrder[i] = w

\* a < b for two str: the first differing word decides, a proper prefix is
\* smaller
RECURSIVE str_lt(_, _)
str_lt(a, b) ==
    IF b = <<>> THEN FALSE
    ELSE IF a = <<>> THEN TRUE
    ELSE IF a[1] = b[1] THEN str_lt(Tail(a), Tail(b))
    ELSE rank(a[1]) < rank(b[1])

\* _row_matches
row_matches(ev, sn, user_id, since, until) ==
    /\ ~(truthy(sn) /\ str(ev.sn) # str(sn))
    /\ ~(truthy(user_id) /\ str(ev.user_id) # str(user_id))
    /\ LET ts == str(ev.timestamp) IN
       /\ ~(truthy(since) /\ str_lt(ts, str(since)))
       /\ ~(truthy(until) /\ str_lt(str(until), ts))

\* the loop of export_json and export_csv breaks off: a line's value is not a
\* dict and ev.get raises AttributeError, outside the try
scan_raises(lines) ==
    \E i \in 1..Len(lines) :
        json_loads(lines[i]) # <<>> /\ ~is_dict(json_loads(lines[i])[1])

\* the loop of export_json and export_csv: the flattened events that match,
\* in the order of the lines; a line json.loads rejects is skipped
RECURSIVE scan(_, _)
scan(lines, a) ==
    IF lines = <<>> THEN <<>>
    ELSE LET v == json_loads(lines[1]) IN
         (IF v # <<>> /\ is_dict(v[1])
             /\ row_matches(ev_flat(v[1]), a.sn, a.user_id, a.since, a.until)
          THEN <<ev_flat(v[1])>> ELSE <<>>)
         \o scan(Tail(lines), a)

\* items[-limit:]: the slice starts limit items before the end when -limit is
\* negative, and at index -limit (at most the length) when it is not
last_items(items, limit) ==
    LET n == Len(items)
        start == IF -limit < 0 THEN (IF n - limit < 0 THEN 0 ELSE n - limit)
                 ELSE (IF -limit > n THEN n ELSE -limit)
    IN SubSeq(items, start + 1, n)

\* [ev_flat.get(k) for k in header], as csv.writer writes it
flat_row(f) ==
    <<csv_text(f.ts_ingest), csv_text(f.sn), csv_text(f.user_id),
      csv_text(f.timestamp), csv_text(f.status), csv_text(f.punch),
      csv_text(f.workcode), csv_text(f.ext_verified), csv_text(f.ext_status),
      csv_text(f.ext_punch), csv_text(f.ext_workcode), csv_text(f.ext_c7),
      csv_text(f.ext_c8), csv_text(f.ext_c9), csv_text(f.raw_source)>>

\* limit: int = 1000 and limit: int = 50000
DefaultLimitJson == 1000
DefaultLimitCsv == 50000

\* the arguments of an export called without filters
NoFilter(limit) ==
    [sn |-> None, user_id |-> None, since |-> None, until |-> None, limit |-> limit]

\* the response of export_json over the lines read: JSONResponse, or the
\* server's 500 for the uncaught exception
export_json_response(lines, a) ==
    IF scan_raises(lines) THEN [status |-> "500", items |-> <<>>]
    ELSE [status |-> "200", items |-> last_items(scan(lines, a), a.limit)]

\* export_csv keeping the first rows that match, not the last
export_csv_response_first_rows(lines, a) ==
    IF scan_raises(lines) THEN [status |-> "500", items |-> <<>>]
    ELSE LET found == scan(lines, a)
             rows == SubSeq(found, 1, IF a.limit < Len(found) THEN a.limit
                                      ELSE Len(found))
         IN [status |-> "200",
             items |-> <<csv_header>> \o [i \in 1..Len(rows) |-> flat_row(rows[i])]]

\* the response of export_csv over the lines read: the header and the rows
export_csv_response(lines, a) ==
    IF scan_raises(lines) THEN [status |-> "500", items |-> <<>>]
    ELSE LET rows == last_items(scan(lines, a), a.limit) IN
         [status |-> "200",
          items |-> <<csv_header>> \o [i \in 1..Len(rows) |-> flat_row(rows[i])]]

\* ------------------------------------------------------------------------
\* Requests the devices send
\* ------------------------------------------------------------------------

CDATA == <<"/iclock/cdata">>
GETREQUEST == <<"/iclock/getrequest">>
RTLOG == <<"/iclock/rtlog">>

\* an extended line: user, time, verified, status
LineTsv == <<"1001", "\t", "2024-01-31", " ", "08:00:00", "\t", "1", "\t", "0">>
\* a short line: user, time, status
LineCsv == <<"1002", ",", "2024-01-31", " ", "09:15:00", ",", "1">>
\* an extended line whose user field is empty
LineNoUser == <<"\t", "2024-01-31", " ", "08:00:00">>
\* a short line that ends after the user field
LineNoTime == <<"1003">>

QSn == Dict1(K("SN"), Str(<<"S1">>))
QBulk == put(QSn, K("table"), Str(<<"ATTLOG">>))

\* the requests a device may send: endpoint, query string, whether the
\* content type is application/x-www-form-urlencoded, body
Requests ==
    { [path |-> CDATA, query |-> QBulk, form |-> FALSE,
       body |-> LineTsv \o <<"\n">> \o LineNoTime \o <<"\n">>],
      [path |-> CDATA, query |-> QSn, form |-> TRUE,
       body |-> <<"ATTLOG", "=">> \o LineCsv],
      [path |-> CDATA, query |-> QBulk, form |-> FALSE,
       body |-> LineNoUser \o <<"\n">>],
      [path |-> GETREQUEST, query |-> QSn, form |-> FALSE, body |-> <<>>],
      [path |-> RTLOG,
       query |-> put(put(QSn, K("PIN"), Str(<<"77">>)), K("Time"),
                     Str(<<"2024-01-31", " ", " ", "09:15:00">>)),
       form |-> FALSE, body |-> <<>>],
      [path |-> RTLOG, query |-> QSn, form |-> TRUE,
       body |-> <<"PIN", "=", "78", "&", "Status", "=", "1">>] }

\* requests that carry table=ATTLOG beside a bulk body: a poll, a
\* single-event push, a form-encoded bulk push
MixedRequests ==
    { [path |-> GETREQUEST, query |-> QBulk, form |-> FALSE,
       body |-> LineTsv \o <<"\n">>],
      [path |-> RTLOG, query |-> QBulk, form |-> FALSE,
       body |-> LineTsv \o <<"\n">>],
      [path |-> CDATA, query |-> QBulk, form |-> TRUE,
       body |-> <<"ATTLOG", "=">> \o LineCsv] }

\* ------------------------------------------------------------------------
\* The server process and the replay script
\* ------------------------------------------------------------------------

\* calls in one run: the requests the server handles and the start of the
\* replay script
MaxCalls == 2
\* I/O errors in one run
MaxFaults == 1

SRV == "srv"
REP == "rep"
Procs == {SRV, REP}

VARIABLES
    now,      \* the latest instant a call of _ts() has returned
    raw,      \* RAW_DIR: instant t of file <ts>.json -> its content
    ndjson,   \* attlog.ndjson: the records, one per line
    csv,      \* attlog.csv: whether it exists, and its blocks
    pc,       \* where each process is
    loc,      \* the locals of each process's running call
    files,    \* the replay script's list of files still to read
    ncalls,   \* requests received by the server, plus one if the script was started
    faults,   \* I/O errors so far
    hist,     \* per process, what its latest call has done so far
    captured, \* the requests whose raw capture has been written
    out       \* the latest export's call and response

vars == <<now, raw, ndjson, csv, pc, loc, files, ncalls, faults, hist, captured, out>>

\* appended: the positions in the record log of the entries the call has
\* appended so far
NoLoc == [path |-> <<>>, q |-> EmptyDict, body |-> <<>>, ts |-> 0,
          events |-> <<>>, after |-> "none", appended |-> <<>>]

NoHist == [resp |-> "none", captured |-> FALSE, parsed |-> FALSE,
           touched |-> FALSE, failed_at |-> "none"]

\* no export has been called yet
NoOut == [call |-> "none"]

Init ==
    /\ now = 0
    /\ raw = [t \in {} |-> EmptyFile]
    /\ ndjson = <<>>
    /\ csv = [exists |-> FALSE, content |-> <<>>]
    /\ pc = [p \in Procs |-> IF p = SRV THEN "idle" ELSE "off"]
    /\ loc = [p \in Procs |-> NoLoc]
    /\ files = <<>>
    /\ ncalls = 0
    /\ faults = 0
    /\ hist = [p \in Procs |-> NoHist]
    /\ captured = {}
    /\ out = NoOut

\* The instants a call of _ts() may return: that of the latest call before it
\* (the clock has not advanced since) or the next one.
clock_reads == {t \in {now, now + 1} : t >= 1}

\* where a call of _ingest starts: ts = _ts() has returned t
ingest_entry(path, q, body, t, after) ==
    [path |-> path, q |-> q, body |-> body, ts |-> t, events |-> <<>>, after |-> after,
     appended |-> <<>>]

\* Receive with the capture left out: the call goes straight to the parse
Receive_without_capture(r, t) ==
    /\ pc[SRV] = "idle"
    /\ ncalls < MaxCalls
    /\ t \in clock_reads
    /\ ncalls' = ncalls + 1
    /\ now' = t
    /\ loc' = [loc EXCEPT ![SRV] =
                 ingest_entry(r.path,
                              IF r.path = GETREQUEST THEN r.query
                              ELSE merged_query(r.query, r.form, r.body),
                              r.body, t,
                              IF r.path = RTLOG THEN "rt_parse" ELSE "respond")]
    /\ pc' = [pc EXCEPT ![SRV] = "parse"]
    /\ hist' = [hist EXCEPT ![SRV] = NoHist]
    /\ UNCHANGED <<raw, ndjson, csv, files, faults, captured, out>>

\* iclock_cdata, iclock_getrequest, iclock_rtlog up to the first line of
\* _ingest: the query is read, a form body is merged into it, the clock is read
Receive(r, t) ==
    /\ pc[SRV] = "idle"
    /\ ncalls < MaxCalls
    /\ t \in clock_reads
    /\ ncalls' = ncalls + 1
    /\ now' = t
    /\ loc' = [loc EXCEPT ![SRV] =
                 ingest_entry(r.path,
                              IF r.path = GETREQUEST THEN r.query
                              ELSE merged_query(r.query, r.form, r.body),
                              r.body, t,
                              IF r.path = RTLOG THEN "rt_parse" ELSE "respond")]
    /\ pc' = [pc EXCEPT ![SRV] = "raw_open"]
    /\ hist' = [hist EXCEPT ![SRV] = NoHist]
    /\ UNCHANGED <<raw, ndjson, csv, files, faults, captured, out>>

\* what a raw capture has to hold of its request
request_of(c) == [path |-> c.path, query |-> c.q, body |-> c.body]

\* _ingest: open(os.path.join(RAW_DIR, f"{ts}.json"), "w")
RawOpen(p) ==
    /\ pc[p] = "raw_open"
    /\ raw' = put(raw, loc[p].ts, EmptyFile)
    /\ pc' = [pc EXCEPT ![p] = "raw_write"]
    /\ UNCHANGED <<now, ndjson, csv, loc, files, ncalls, faults, hist, captured, out>>

\* _ingest: json.dump(raw_payload, f) and the close that flushes it
RawWrite(p) ==
    /\ pc[p] = "raw_write"
    /\ raw' = put(raw, loc[p].ts,
                  raw_payload(loc[p].ts, loc[p].path, loc[p].q, loc[p].body))
    /\ pc' = [pc EXCEPT ![p] = "parse"]
    /\ hist' = [hist EXCEPT ![p].captured = TRUE]
    /\ captured' = captured \cup {request_of(loc[p])}
    /\ UNCHANGED <<now, ndjson, csv, loc, files, ncalls, faults, out>>

\* the step a call takes once no event is left to append
return_to(p) == loc[p].after

\* _ingest: sn and events = _maybe_parse_attlog(query, body)
ParseBulk(p) ==
    /\ pc[p] = "parse"
    /\ LET evs == norm_events(Str(ts_text(loc[p].ts)), serial_of(loc[p].q),
                              maybe_parse_attlog(loc[p].q, loc[p].body),
                              Str(loc[p].path))
       IN /\ loc' = [loc EXCEPT ![p].events = evs]
          /\ pc' = [pc EXCEPT ![p] = IF evs = <<>> THEN return_to(p) ELSE "nd"]
    /\ hist' = [hist EXCEPT ![p].parsed = TRUE]
    /\ UNCHANGED <<now, raw, ndjson, csv, files, ncalls, faults, captured, out>>

\* _append_ndjson(ev_norm)
AppendNdjson(p) ==
    /\ pc[p] = "nd"
    /\ ndjson' = Append(ndjson, Head(loc[p].events))
    /\ pc' = [pc EXCEPT ![p] = "hdr_check"]
    /\ loc' = [loc EXCEPT ![p].appended = Append(@, Len(ndjson) + 1)]
    /\ hist' = [hist EXCEPT ![p].touched = TRUE]
    /\ UNCHANGED <<now, raw, csv, files, ncalls, faults, captured, out>>

\* _append_csv_header_if_needed: if not os.path.exists(PARSED_CSV)
HeaderCheck(p) ==
    /\ pc[p] = "hdr_check"
    /\ pc' = [pc EXCEPT ![p] = IF csv.exists THEN "row" ELSE "hdr_open"]
    /\ UNCHANGED <<now, raw, ndjson, csv, loc, files, ncalls, faults, hist, captured, out>>

\* _append_csv_header_if_needed: open(PARSED_CSV, "w") creates or truncates
HeaderOpen(p) ==
    /\ pc[p] = "hdr_open"
    /\ csv' = [exists |-> TRUE, content |-> <<>>]
    /\ pc' = [pc EXCEPT ![p] = "hdr_write"]
    /\ hist' = [hist EXCEPT ![p].touched = TRUE]
    /\ UNCHANGED <<now, raw, ndjson, loc, files, ncalls, faults, captured, out>>

\* _append_csv_header_if_needed: w.writerow(header), flushed at offset 0
HeaderWrite(p) ==
    /\ pc[p] = "hdr_write"
    /\ csv' = [csv EXCEPT !.content = write_at_start(@, blocks_of(csv_header))]
    /\ pc' = [pc EXCEPT ![p] = "row"]
    /\ UNCHANGED <<now, raw, ndjson, loc, files, ncalls, faults, hist, captured, out>>

\* _append_csv_row: open(PARSED_CSV, "a") and w.writerow(...)
AppendCsvRow(p) ==
    /\ pc[p] = "row"
    /\ csv' = [exists |-> TRUE,
               content |-> write_at_end(csv.content,
                                        blocks_of(csv_row(Head(loc[p].events))))]
    /\ loc' = [loc EXCEPT ![p].events = Tail(@)]
    /\ pc' = [pc EXCEPT ![p] =
                IF Tail(loc[p].events) = <<>> THEN return_to(p) ELSE "nd"]
    /\ hist' = [hist EXCEPT ![p].touched = TRUE]
    /\ UNCHANGED <<now, raw, ndjson, files, ncalls, faults, captured, out>>

\* iclock_rtlog after _ingest: ev = _parse_rtlog(q), else of the form body
rtlog_event(q, body) ==
    LET ev == parse_rtlog(q) IN
    IF ev = None /\ body # <<>> THEN parse_rtlog(parse_qs(body)) ELSE ev

\* iclock_rtlog: the single-event parse and, for an event, ts = _ts()
ParseRtlog ==
    /\ pc[SRV] = "rt_parse"
    /\ LET ev == rtlog_event(loc[SRV].q, loc[SRV].body) IN
       IF ev = None
       THEN /\ pc' = [pc EXCEPT ![SRV] = "respond"]
            /\ UNCHANGED <<now, loc>>
       ELSE \E t \in clock_reads :
            /\ now' = t
            /\ loc' = [loc EXCEPT ![SRV].events =
                         <<ev_norm(Str(ts_text(t)), serial_of(loc[SRV].q), ev[1],
                                   Str(RTLOG))>>,
                                  ![SRV].after = "respond"]
            /\ pc' = [pc EXCEPT ![SRV] = "nd"]
    /\ hist' = [hist EXCEPT ![SRV].parsed = TRUE]
    /\ UNCHANGED <<raw, ndjson, csv, files, ncalls, faults, captured, out>>

\* return PlainTextResponse("OK", status_code=200)
Respond ==
    /\ pc[SRV] = "respond"
    /\ pc' = [pc EXCEPT ![SRV] = "idle"]
    /\ loc' = [loc EXCEPT ![SRV] = NoLoc]
    /\ hist' = [hist EXCEPT ![SRV].resp = "OK"]
    /\ UNCHANGED <<now, raw, ndjson, csv, files, ncalls, faults, captured, out>>

\* the steps that open or write a file
IOSteps == {"raw_open", "raw_write", "nd", "hdr_open", "hdr_write", "row"}

\* IOError with a failed capture swallowed: the call carries on with the parse
IOError_capture_swallowed(p) ==
    /\ pc[p] \in IOSteps
    /\ faults < MaxFaults
    /\ faults' = faults + 1
    /\ IF pc[p] \in {"raw_open", "raw_write"}
       THEN /\ pc' = [pc EXCEPT ![p] = "parse"]
            /\ hist' = [hist EXCEPT ![p].failed_at = pc[p]]
            /\ UNCHANGED <<loc, files>>
       ELSE /\ pc' = [pc EXCEPT ![p] = IF p = SRV THEN "idle" ELSE "done"]
            /\ loc' = [loc EXCEPT ![p] = NoLoc]
            /\ hist' = [hist EXCEPT ![p].resp = "500", ![p].failed_at = pc[p]]
            /\ files' = IF p = REP THEN <<>> ELSE files
    /\ UNCHANGED <<now, raw, ndjson, csv, ncalls, captured, out>>

\* An open or a write raises OSError and writes nothing.  Nothing catches it:
\* the server answers 500, the replay script dies.
IOError(p) ==
    /\ pc[p] \in IOSteps
    /\ faults < MaxFaults
    /\ faults' = faults + 1
    /\ pc' = [pc EXCEPT ![p] = IF p = SRV THEN "idle" ELSE "done"]
    /\ loc' = [loc EXCEPT ![p] = NoLoc]
    /\ hist' = [hist EXCEPT ![p].resp = "500", ![p].failed_at = pc[p]]
    /\ files' = IF p = REP THEN <<>> ELSE files
    /\ UNCHANGED <<now, raw, ndjson, csv, ncalls, captured, out>>

\* reparse_adms_raw.main: files = sorted(f for f in os.listdir(raw_dir) ...)
StartReplay ==
    /\ pc[REP] = "off"
    /\ ncalls < MaxCalls
    /\ ncalls' = ncalls + 1
    /\ files' = sorted(DOMAIN raw)
    /\ pc' = [pc EXCEPT ![REP] = "rep_next"]
    /\ UNCHANGED <<now, raw, ndjson, csv, loc, faults, hist, captured, out>>

\* reparse_adms_raw.main: the test that selects a capture for re-ingestion
is_attlog_capture(q, body) ==
    table_is_attlog(q) \/ has_marker(body) \/ contains(body, "\t")

\* reparse_adms_raw.main: one turn of the loop, up to the first line of _ingest
ReplayNext ==
    /\ pc[REP] = "rep_next"
    /\ IF files = <<>>
       THEN /\ pc' = [pc EXCEPT ![REP] = "done"]
            /\ UNCHANGED <<now, loc, files, hist>>
       ELSE LET data == raw[Head(files)] IN
            IF data = EmptyFile
            THEN \* json.load raises on an empty file
                 /\ pc' = [pc EXCEPT ![REP] = "done"]
                 /\ files' = <<>>
                 /\ hist' = [hist EXCEPT ![REP].resp = "500",
                                         ![REP].failed_at = "rep_next"]
                 /\ UNCHANGED <<now, loc>>
            ELSE IF is_attlog_capture(data.query, data.body)
            THEN \E t \in clock_reads :
                 /\ now' = t
                 /\ loc' = [loc EXCEPT ![REP] =
                              ingest_entry(data.path, data.query, data.body, t,
                                           "rep_next")]
                 /\ files' = Tail(files)
                 /\ pc' = [pc EXCEPT ![REP] = "raw_open"]
                 /\ hist' = [hist EXCEPT ![REP] = NoHist]
            ELSE /\ files' = Tail(files)
                 /\ UNCHANGED <<now, loc, pc, hist>>
    /\ UNCHANGED <<raw, ndjson, csv, ncalls, faults, captured, out>>

\* What a reader finds behind the last complete line of the record log:
\* nothing, or the first bytes of the line a writer is writing.
visible_tails ==
    {<<>>} \cup {<<torn(Head(loc[p].events))>> : p \in {q \in Procs : pc[q] = "nd"}}

\* export_json: a sync handler, run in a worker thread beside the ingestion
\* handlers; it reads the record log in one pass
ExportJson(a) ==
    /\ ncalls < MaxCalls
    /\ ncalls' = ncalls + 1
    /\ \E tail \in visible_tails :
         LET r == export_json_response(ndjson \o tail, a) IN
         out' = [call |-> "export_json", args |-> a, status |-> r.status,
                 items |-> r.items, nlines |-> Len(ndjson),
                 torn_seen |-> tail # <<>>]
    /\ UNCHANGED <<now, raw, ndjson, csv, pc, loc, files, faults, hist, captured>>

\* export_csv
ExportCsv(a) ==
    /\ ncalls < MaxCalls
    /\ ncalls' = ncalls + 1
    /\ \E tail \in visible_tails :
         LET r == export_csv_response(ndjson \o tail, a) IN
         out' = [call |-> "export_csv", args |-> a, status |-> r.status,
                 items |-> r.items, nlines |-> Len(ndjson),
                 torn_seen |-> tail # <<>>]
    /\ UNCHANGED <<now, raw, ndjson, csv, pc, loc, files, faults, hist, captured>>

Next ==
    \/ \E r \in Requests, t \in clock_reads : Receive(r, t)
    \/ \E p \in Procs : RawOpen(p)
    \/ \E p \in Procs : RawWrite(p)
    \/ \E p \in Procs : ParseBulk(p)
    \/ \E p \in Procs : AppendNdjson(p)
    \/ \E p \in Procs : HeaderCheck(p)
    \/ \E p \in Procs : HeaderOpen(p)
    \/ \E p \in Procs : HeaderWrite(p)
    \/ \E p \in Procs : AppendCsvRow(p)
    \/ ParseRtlog
    \/ Respond
    \/ \E p \in Procs : IOError(p)
    \/ StartReplay
    \/ ReplayNext
    \/ ExportJson(NoFilter(DefaultLimitJson))
    \/ ExportCsv(NoFilter(DefaultLimitCsv))

Spec == Init /\ [][Next]_vars

\* the same program, the devices sending the mixed requests as well
NextMixed ==
    \/ \E r \in MixedRequests, t \in clock_reads : Receive(r, t)
    \/ Next

SpecMixed == Init /\ [][NextMixed]_vars

\* ------------------------------------------------------------------------
\* The exports over a record log of any content
\* ------------------------------------------------------------------------

\* lines in the record log
MaxJournal == 3
\* the largest limit asked for
MaxLimit == 2

\* records of earlier bulk pushes: one of each encoding, one without timestamp
JournalEvents ==
    <<ev_norm(Str(ts_text(1)), Str(<<"S1">>), parse_attlog_line(LineTsv)[1], Str(CDATA)),
      ev_norm(Str(ts_text(2)), Str(<<"S2">>), parse_attlog_line(LineCsv)[1], Str(CDATA)),
      ev_norm(Str(ts_text(3)), Str(<<"S1">>), parse_attlog_line(LineNoTime)[1],
              Str(CDATA))>>

\* the lines of the record log: the records, a truncated record, JSON that is
\* not an object
JournalLines ==
    {JournalEvents[i] : i \in 1..Len(JournalEvents)}
        \cup {torn(JournalEvents[1]), scalar(<<"123">>)}

\* every record log of at most n lines
RECURSIVE Journals(_)
Journals(n) ==
    IF n = 0 THEN {<<>>}
    ELSE LET shorter == Journals(n - 1) IN
         shorter \cup {Append(j, l) : j \in shorter, l \in JournalLines}

\* the tabular log beside journal j: the header and the rows of its records
RECURSIVE rows_beside(_)
rows_beside(j) ==
    IF j = <<>> THEN <<>>
    ELSE (IF json_loads(j[1]) # <<>> /\ is_dict(j[1]) THEN blocks_of(csv_row(j[1])) ELSE <<>>)
         \o rows_beside(Tail(j))

InitExport ==
    /\ now = 3
    /\ raw = [t \in {} |-> EmptyFile]
    /\ ndjson \in Journals(MaxJournal)
    /\ csv = IF rows_beside(ndjson) = <<>> THEN [exists |-> FALSE, content |-> <<>>]
             ELSE [exists |-> TRUE,
                   content |-> blocks_of(csv_header) \o rows_beside(ndjson)]
    /\ pc = [p \in Procs |-> IF p = SRV THEN "idle" ELSE "off"]
    /\ loc = [p \in Procs |-> NoLoc]
    /\ files = <<>>
    /\ ncalls = 0
    /\ faults = 0
    /\ hist = [p \in Procs |-> NoHist]
    /\ captured = {}
    /\ out = NoOut

\* the bounds asked for
Bounds ==
    {None, Str(<<"2024-01-31", " ", "08:00:00">>), Str(<<"2024-01-31", " ", "08:30:00">>),
     Str(<<"2024-01-31", " ", "09:15:00">>)}

\* the arguments of an export
ExportArgs ==
    [sn : {None, Str(<<"S1">>)}, user_id : {None, Str(<<"1001">>)},
     since : Bounds, until : Bounds, limit : 0..MaxLimit]

\* one export in a run
NextExport ==
    /\ out = NoOut
    /\ \E a \in ExportArgs : ExportJson(a) \/ ExportCsv(a)

SpecExport == InitExport /\ [][NextExport]_vars

\* ------------------------------------------------------------------------
\* The line parser called on its own
\* ------------------------------------------------------------------------

\* fields after the timestamp in the lines tried
MaxExtra == 7
\* tokens in the free-form lines tried
MaxTokens == 4

\* the lines of scenarios A and B
ScenarioA ==
    <<"1001", "\t", "2024-01-31", " ", "08:00:00", "\t", "1", "\t", "0", "\t", "0">>
ScenarioB == <<"1001", ",", "2024-01-31", " ", "08:00:00", ",", "1", ",", "0">>

\* user fields: plain, and padded with blanks
Users == {<<"1001">>, <<" ", "1001", " ">>}

\* timestamp fields: canonical, with a run of blanks, a bare date, not a date,
\* not a date and padded with blanks
Stamps ==
    {<<"2024-01-31", " ", "08:00:00">>, <<"2024-01-31", " ", " ", "09:15:00">>,
     <<"2024-01-31">>, <<"soon">>, <<" ", "soon", " ">>}

\* the values tried for the field at Python index i: a value that names its
\* position, the empty field, a blank
ExtraFields(i) == {<<ToString(i)>>, <<>>, <<" ">>}

\* the sequences of n fields that follow the timestamp
RECURSIVE Extras(_)
Extras(n) ==
    IF n = 0 THEN {<<>>}
    ELSE {Append(x, f) : x \in Extras(n - 1), f \in ExtraFields(n + 1)}

\* lines of a user field and a timestamp field joined by sep
HeadLines(sep) == {join(<<u, s>>, <<sep>>) : u \in Users, s \in Stamps}

\* lines of a user field, a timestamp field and up to MaxExtra further fields
\* joined by sep
LongLines(sep) ==
    {join(<<<<"1001">>, <<"2024-01-31", " ", "08:00:00">>>> \o x, <<sep>>) :
        x \in UNION {Extras(n) : n \in 1..MaxExtra}}

\* every line of at most n tokens
RECURSIVE TokenLines(_)
TokenLines(n) ==
    IF n = 0 THEN {<<>>}
    ELSE LET shorter == TokenLines(n - 1) IN
         shorter \cup {Append(l, c) : l \in shorter, c \in {"1001", "7", "\t", ",", " "}}

\* the lines handed to the line parser
Lines ==
    HeadLines("\t") \cup HeadLines(",") \cup LongLines("\t") \cup LongLines(",")
        \cup TokenLines(MaxTokens) \cup {ScenarioA, ScenarioB}

\* _parse_attlog_line(l)
ParseLine(l) ==
    /\ out' = [call |-> "parse_attlog_line", line |-> l,
               result |-> parse_attlog_line(l)]
    /\ UNCHANGED <<now, raw, ndjson, csv, pc, loc, files, ncalls, faults, hist, captured>>

\* one call of the line parser in a run
NextParse == out = NoOut /\ \E l \in Lines : ParseLine(l)

SpecParse == Init /\ [][NextParse]_vars

\* ------------------------------------------------------------------------
\* The single-event endpoint called on its own
\* ------------------------------------------------------------------------

\* the parameter names _parse_rtlog looks for, as it spells them first
RtNames == {"PIN", "Time", "Status", "Workcode"}

\* spellings of a parameter name that differ in letter case only
Spellings(name) ==
    CASE name = "PIN" -> {"PIN", "pin", "Pin"}
      [] name = "Time" -> {"Time", "time", "TIME"}
      [] name = "Status" -> {"Status", "status", "STATUS"}
      [] name = "Workcode" -> {"Workcode", "workcode", "WORKCODE"}

\* a parameter of the query string: absent, or a spelling of name with a value
Params(name, values) ==
    {<<>>} \cup {<<K(w), Str(v)>> : w \in Spellings(name), v \in values}

\* d with the parameter o, when there is one
with_param(d, o) == IF o = <<>> THEN d ELSE put(d, o[1], o[2])

\* the query strings tried: SN, and PIN, Time, Status, Workcode in any
\* spelling; a user that is empty, a time that is not a date
RtQueries ==
    {with_param(with_param(with_param(with_param(QSn, p), t), st), wc) :
        p \in Params("PIN", {<<"77">>, <<>>}),
        t \in Params("Time", {<<"2024-01-31", " ", " ", "09:15:00">>, <<" ", "soon", " ">>}),
        st \in Params("Status", {<<"0">>, <<>>}),
        wc \in {<<>>, <<K("Workcode"), Str(<<"5">>)>>}}

\* the bodies tried: none, a whole event, an event without a time, a status
RtBodies ==
    {<<>>,
     <<"PIN", "=", "78", "&", "Time", "=", "2024-01-31", " ", "08:00:00",
       "&", "Status", "=", "1">>,
     <<"PIN", "=", "78", "&", "Status", "=", "1">>,
     <<"Status", "=", "1">>}

\* the requests sent to /iclock/rtlog
RtRequests ==
    [path : {RTLOG}, query : RtQueries, form : BOOLEAN, body : RtBodies]

\* iclock_rtlog: the event the handler builds from the request r, if any
RtlogPush(r) ==
    /\ out' = [call |-> "iclock_rtlog", query |-> r.query, form |-> r.form,
               body |-> r.body,
               event |-> rtlog_event(merged_query(r.query, r.form, r.body), r.body)]
    /\ UNCHANGED <<now, raw, ndjson, csv, pc, loc, files, ncalls, faults, hist, captured>>

\* one single-event push in a run
NextRtlog == out = NoOut /\ \E r \in RtRequests : RtlogPush(r)

SpecRtlog == Init /\ [][NextRtlog]_vars

\* one call in a run, of the line parser or of the single-event endpoint
NextCall == NextParse \/ NextRtlog

SpecCall == Init /\ [][NextCall]_vars

\* ------------------------------------------------------------------------
\* One bulk push of any payload
\* ------------------------------------------------------------------------

\* lines in the payloads tried
MaxLines == 3

\* the lines a payload is made of: an extended line, a short line, a short
\* line that ends after the user field, and lines that yield no event: the
\* empty line, a line of commas
PayloadLines == {LineTsv, LineCsv, LineNoTime, <<>>, <<",", ",">>}

\* the payloads of n lines, each line ended by a newline
RECURSIVE Payloads(_)
Payloads(n) ==
    IF n = 0 THEN {<<>>}
    ELSE {l \o <<"\n">> \o b : l \in PayloadLines, b \in Payloads(n - 1)}

\* the bulk pushes tried
PushRequests ==
    [path : {CDATA}, query : {QBulk}, form : {FALSE},
     body : UNION {Payloads(n) : n \in 1..MaxLines}]

\* the server handling one bulk push, alone
NextPush ==
    \/ ncalls = 0 /\ \E r \in PushRequests, t \in clock_reads : Receive(r, t)
    \/ RawOpen(SRV)
    \/ RawWrite(SRV)
    \/ ParseBulk(SRV)
    \/ AppendNdjson(SRV)
    \/ HeaderCheck(SRV)
    \/ HeaderOpen(SRV)
    \/ HeaderWrite(SRV)
    \/ AppendCsvRow(SRV)
    \/ Respond
    \/ IOError(SRV)

SpecPush == Init /\ [][NextPush]_vars

\* ------------------------------------------------------------------------
\* Properties
\* ------------------------------------------------------------------------

\* no call is running: the server is between requests, the script is not
\* running
Quiescent == pc[SRV] = "idle" /\ pc[REP] \in {"off", "done"}

\* the lines of the tabular log, header excluded
data_rows(content) ==
    LET lines == csv_lines(content) IN
    IF lines # <<>> /\ lines[1] = csv_header THEN Tail(lines) ELSE lines

\* the rows the records of the record log stand for, in order
rows_of(records) == [i \in 1..Len(records) |-> csv_row(records[i])]

\* s is a prefix of t
IsPrefix(s, t) == Len(s) <= Len(t) /\ SubSeq(t, 1, Len(s)) = s

Range(f) == {f[i] : i \in DOMAIN f}

\* C1: once every ingestion call has returned without an I/O error, the
\* tabular log (header excluded) has as many entries as the record log and
\* its i-th entry is the row of the i-th record.
C1_SinksCorrespond ==
    (Quiescent /\ faults = 0) => data_rows(csv.content) = rows_of(ndjson)

\* C2: as long as no I/O error has occurred, a tabular log that exists (and is
\* no longer empty) holds the header exactly once, as its first line.
C2_HeaderOnceAndFirst ==
    (csv.exists /\ csv.content # <<>> /\ faults = 0) =>
        LET lines == csv_lines(csv.content) IN
        /\ lines[1] = csv_header
        /\ \A i \in 2..Len(lines) : lines[i] # csv_header

\* C3: every step leaves the old content of each sink as a prefix of the new.
C3_AppendOnly ==
    [][IsPrefix(ndjson, ndjson') /\ IsPrefix(csv.content, csv'.content)]_vars

\* C4: in every state the two sinks hold the same events.
C4_NoPartialAppend ==
    Range(data_rows(csv.content)) = Range(rows_of(ndjson))

\* the request a capture file holds
held(file) == [path |-> file.path, query |-> file.query, body |-> file.body]

\* C5: once every call has returned without an I/O error, each request whose
\* raw capture was written is held by a file of the raw capture store.
C5_EveryCaptureKept ==
    (Quiescent /\ faults = 0) =>
        \A c \in captured :
            \E t \in DOMAIN raw : raw[t] # EmptyFile /\ held(raw[t]) = c

\* C6: every record of the journal has a user_id and a timestamp that are
\* neither null nor empty.
C6_MandatoryFields ==
    \A i \in 1..Len(ndjson) : truthy(ndjson[i].user_id) /\ truthy(ndjson[i].timestamp)

\* C7: a request that has been parsed, has written to a sink or has been
\* answered OK has had its raw capture written before.
C7_CaptureFirst ==
    (hist[SRV].parsed \/ hist[SRV].touched \/ hist[SRV].resp = "OK")
        => hist[SRV].captured

\* a request answered OK whose capture was written and that journaled nothing
C7_Witness ==
    /\ hist[SRV].resp = "OK"
    /\ hist[SRV].captured
    /\ hist[SRV].parsed
    /\ ~hist[SRV].touched
    /\ ndjson = <<>>

\* C8: a request whose raw capture failed is answered with an error, has
\* written to neither sink and has nothing left to write.
C8_CaptureFailureWritesNothing ==
    hist[SRV].failed_at \in {"raw_open", "raw_write"} =>
        /\ hist[SRV].resp = "500"
        /\ ~hist[SRV].parsed
        /\ ~hist[SRV].touched
        /\ pc[SRV] = "idle"
        /\ loc[SRV].events = <<>>

\* a request whose capture failed while its file was being written
C8_Witness ==
    /\ hist[SRV].failed_at = "raw_write"
    /\ hist[SRV].resp = "500"
    /\ raw # <<>>
    /\ ndjson = <<>>

\* C9: with the server the only writer, after a request has failed in one of
\* the writes of an append the two sinks hold the same events in the same order.
C9_AppendAllOrNothing ==
    (pc[REP] = "off" /\ pc[SRV] = "idle"
        /\ hist[SRV].failed_at \in {"nd", "hdr_open", "hdr_write", "row"})
    => data_rows(csv.content) = rows_of(ndjson)

\* the fields of a record that the replay has to regenerate
core(ev) ==
    [sn |-> ev.sn, user_id |-> ev.user_id, timestamp |-> ev.timestamp,
     status |-> ev.status, punch |-> ev.punch, workcode |-> ev.workcode,
     ext |-> ev.ext]

\* reparse_adms_raw.main on the captures of dir: the events it journals
replay_events(dir) ==
    UNION { IF dir[t] # EmptyFile /\ is_attlog_capture(dir[t].query, dir[t].body)
            THEN Range(norm_events(Str(dir[t].ts), serial_of(dir[t].query),
                                   maybe_parse_attlog(dir[t].query, dir[t].body),
                                   Str(dir[t].path)))
            ELSE {} : t \in DOMAIN dir }

\* C10: with the server between requests, the script not yet run and no I/O
\* error so far, every record of the journal is one the replay of the raw
\* captures regenerates.
C10_ReplayRegenerates ==
    (pc[SRV] = "idle" /\ pc[REP] = "off" /\ faults = 0) =>
        \A i \in 1..Len(ndjson) :
            core(ndjson[i]) \in {core(e) : e \in replay_events(raw)}

\* C11: a request to /iclock/getrequest writes to neither sink.
C11_PollLeavesJournal ==
    loc[SRV].path = GETREQUEST => ~hist[SRV].touched

\* C12: a request to /iclock/rtlog writes to the sinks only after its
\* single-event parse, and then only the one event that parse produced.
C12_RtlogAppendsItsEventOnly ==
    (loc[SRV].path = RTLOG /\ hist[SRV].touched) =>
        LET ev == rtlog_event(loc[SRV].q, loc[SRV].body) IN
        /\ loc[SRV].after = "respond"
        /\ ev # None
        /\ Len(loc[SRV].events) <= 1
        /\ \A i \in 1..Len(loc[SRV].events) :
              core(loc[SRV].events[i])
                = core(ev_norm(None, serial_of(loc[SRV].q), ev[1], Str(RTLOG)))

\* the candidate lines of the first bulk recognition rule that matches:
\* (1) marker lines of the body, (2) the lines of a body with a tab or a
\* newline under table=ATTLOG, (3) the lines of the ATTLOG parameter under
\* table=ATTLOG
first_rule_candidates(query, bt) ==
    IF has_marker(bt) THEN marker_lines(splitlines(bt))
    ELSE IF table_is_attlog(query) /\ (contains(bt, "\t") \/ contains(bt, "\n"))
    THEN splitlines(bt)
    ELSE IF table_is_attlog(query) /\ K("ATTLOG") \in DOMAIN query
    THEN all_lines(IF Len(query[K("ATTLOG")]) >= 2 THEN query[K("ATTLOG")]
                   ELSE <<query[K("ATTLOG")][1]>>)
    ELSE <<>>

\* C13: right after the bulk parse of a bulk push, the events to journal are
\* those of the candidates of the first recognition rule that matches.
C13_OneRecognitionRule ==
    (loc[SRV].path = CDATA /\ hist[SRV].parsed /\ ~hist[SRV].touched) =>
        loc[SRV].events
            = norm_events(Str(ts_text(loc[SRV].ts)), serial_of(loc[SRV].q),
                          parse_lines(first_rule_candidates(loc[SRV].q, loc[SRV].body)),
                          Str(CDATA))

\* the names of the extension's fields, in the order of fields 2..8
ExtNames == <<"verified", "status", "punch", "workcode", "c7", "c8", "c9">>

\* ev is an extended event over the tab-separated fields f, each field
\* passed through trim and the timestamp through norm
extended_event_of(ev, f, trim(_), norm(_)) ==
    /\ ev.user_id = Str(trim(f[1]))
    /\ ev.timestamp = norm(Str(trim(f[2])))
    /\ DOMAIN ev.ext = {ExtNames[i] : i \in 1..7}
    /\ \A i \in 1..7 :
          ev.ext[ExtNames[i]] = IF Len(f) >= i + 2 THEN Str(trim(f[i + 2])) ELSE None
    /\ ev.status = ev.ext.status
    /\ ev.punch = ev.ext.punch
    /\ ev.workcode = ev.ext.workcode

same(x) == x

\* C14: for a line without a comma that has at least 2 tab-separated fields
\* once its trailing empty fields are dropped, the line parse yields one event
\* with user_id and timestamp fields 0 and 1, the extension fields 2..8 (null
\* when absent) and top-level status, punch, workcode those of the extension.
C14_ExtendedLine ==
    out.call = "parse_attlog_line" =>
        LET f == drop_trailing_empty(split(out.line, "\t")) IN
        (~contains(out.line, ",") /\ Len(f) >= 2) =>
            /\ Len(out.result) = 1
            /\ extended_event_of(out.result[1], f, same, same)

\* C14 as amended: the fields are those of the line without its trailing
\* whitespace, each stripped of surrounding whitespace, and the timestamp is
\* normalized when it parses as a date-time.
C14_ExtendedLineTrimmed ==
    out.call = "parse_attlog_line" =>
        LET f == split(rstrip(out.line), "\t") IN
        (~contains(out.line, ",") /\ Len(f) >= 2) =>
            /\ Len(out.result) = 1
            /\ extended_event_of(out.result[1], f, strip, normalize_ts)

\* a line of 9 fields, the last one blank, was parsed: c8 is set, c9 is null
C14_Witness ==
    /\ out.call = "parse_attlog_line"
    /\ ~contains(out.line, ",")
    /\ Len(split(out.line, "\t")) = 9
    /\ out.result # <<>>
    /\ out.result[1].ext.c8 = Str(<<"7">>)
    /\ out.result[1].ext.c9 = None
    /\ out.result[1].status = Str(<<"3">>)

\* the events of scenario A as the scenario states them and as amended
ScenarioA_ext(ev) ==
    /\ ev.user_id = Str(<<"1001">>)
    /\ ev.timestamp = Str(<<"2024-01-31", " ", "08:00:00">>)
    /\ ev.ext.verified = Str(<<"1">>)
    /\ ev.ext.status = Str(<<"0">>)
    /\ ev.ext.punch = Str(<<"0">>)
    /\ ev.ext.workcode = None

\* C15: the line of scenario A yields one event with top-level status "1",
\* punch "0", workcode "0" and extension verified "1", status "0", punch "0",
\* workcode null.
C15_ScenarioA ==
    (out.call = "parse_attlog_line" /\ out.line = ScenarioA) =>
        /\ Len(out.result) = 1
        /\ ScenarioA_ext(out.result[1])
        /\ out.result[1].status = Str(<<"1">>)
        /\ out.result[1].punch = Str(<<"0">>)
        /\ out.result[1].workcode = Str(<<"0">>)

\* C15 as amended: the top-level status, punch and workcode are those of the
\* extension: "0", "0" and null.
C15_ScenarioAMirrored ==
    (out.call = "parse_attlog_line" /\ out.line = ScenarioA) =>
        /\ Len(out.result) = 1
        /\ ScenarioA_ext(out.result[1])
        /\ out.result[1].status = Str(<<"0">>)
        /\ out.result[1].punch = Str(<<"0">>)
        /\ out.result[1].workcode = None

\* the line of scenario A was parsed into an event
C15_Witness ==
    /\ out.call = "parse_attlog_line"
    /\ out.line = ScenarioA
    /\ out.result # <<>>
    /\ out.result[1].ext.verified = Str(<<"1">>)

\* ev is a short event over the comma-separated fields f
short_event_of(ev, f, trim(_), norm(_)) ==
    LET field(i) == IF Len(f) >= i THEN Str(trim(f[i])) ELSE None IN
    /\ ev.user_id = field(1)
    /\ ev.timestamp = norm(field(2))
    /\ ev.status = field(3)
    /\ ev.punch = field(4)
    /\ ev.workcode = field(5)
    /\ ev.ext = EmptyExt

\* what scenario B states of its event
ScenarioB_holds ==
    out.line = ScenarioB =>
        /\ Len(out.result) = 1
        /\ out.result[1].status = Str(<<"1">>)
        /\ out.result[1].punch = Str(<<"0">>)
        /\ out.result[1].workcode = None
        /\ out.result[1].ext = EmptyExt

\* C16: a comma-separated line yields one event whose user_id, timestamp,
\* status, punch and workcode are its first five fields, padded with null,
\* and whose extension is empty; scenario B.
C16_ShortLine ==
    out.call = "parse_attlog_line" =>
        /\ contains(out.line, ",") =>
              /\ Len(out.result) = 1
              /\ short_event_of(out.result[1], split(out.line, ","), same, same)
        /\ ScenarioB_holds

\* C16 as amended: the line is taken without its trailing whitespace and then
\* without its trailing commas and must still hold a comma; each field is
\* stripped of surrounding whitespace and the timestamp is normalized when it
\* parses as a date-time.
C16_ShortLineTrimmed ==
    out.call = "parse_attlog_line" =>
        /\ LET trimmed == rstrip_set(rstrip(out.line), {","}) IN
           contains(trimmed, ",") =>
              /\ Len(out.result) = 1
              /\ short_event_of(out.result[1], split(trimmed, ","), strip,
                                normalize_ts)
        /\ ScenarioB_holds

\* the line of scenario B was parsed: four fields, the fifth padded with null
C16_Witness ==
    /\ out.call = "parse_attlog_line"
    /\ out.line = ScenarioB
    /\ out.result # <<>>
    /\ out.result[1].punch = Str(<<"0">>)
    /\ out.result[1].workcode = None

\* an export has answered
Exported == out.call \in {"export_json", "export_csv"}

\* the events an export returned: the items, or the rows under the header
returned ==
    IF out.call = "export_json" THEN out.items
    ELSE IF out.items = <<>> THEN <<>> ELSE Tail(out.items)

\* what an export returns for the flattened event f
returned_for(f) == IF out.call = "export_json" THEN f ELSE flat_row(f)

\* the records among lines: the lines that are a whole JSON object
RECURSIVE records_of(_)
records_of(lines) ==
    IF lines = <<>> THEN <<>>
    ELSE (IF "torn" \notin DOMAIN lines[1] /\ "scalar" \notin DOMAIN lines[1]
          THEN <<lines[1]>> ELSE <<>>) \o records_of(Tail(lines))

\* the events of the records that pass the filters of a, as the export
\* returns them, in arrival order
RECURSIVE matching(_, _)
matching(records, a) ==
    IF records = <<>> THEN <<>>
    ELSE (IF row_matches(ev_flat(records[1]), a.sn, a.user_id, a.since, a.until)
          THEN <<returned_for(ev_flat(records[1]))>> ELSE <<>>)
         \o matching(Tail(records), a)

\* the last k elements of s, all of s when it has fewer
LastK(s, k) == SubSeq(s, (IF Len(s) > k THEN Len(s) - k ELSE 0) + 1, Len(s))

\* C17: an export that answers with limit K >= 0 returns at most K events,
\* the last K of the matching events in arrival order.
C17_LimitIsTail ==
    (Exported /\ out.status = "200" /\ out.args.limit >= 0) =>
        /\ Len(returned) <= out.args.limit
        /\ returned = LastK(matching(records_of(ndjson), out.args), out.args.limit)

\* the stored timestamp of the i-th event returned (the tabular export writes
\* null as the empty field)
returned_timestamp(i) ==
    IF out.call = "export_json" THEN returned[i].timestamp
    ELSE IF returned[i][4] = <<>> THEN None ELSE Str(returned[i][4])

\* C18: an export called with since = S and until = U returns only events whose
\* stored timestamp t is a string with S <= t and t <= U; none with a null
\* timestamp when a bound is supplied.
C18_BoundsHold ==
    (Exported /\ out.status = "200") =>
        \A i \in 1..Len(returned) :
            LET t == returned_timestamp(i) IN
            /\ truthy(out.args.since) =>
                  t # None /\ ~str_lt(str(t), str(out.args.since))
            /\ truthy(out.args.until) =>
                  t # None /\ ~str_lt(str(out.args.until), str(t))

\* C19: over any record log both exports complete and return the matching
\* events of the well-formed records, cut to the limit as the export cuts.
C19_MalformedLinesSkipped ==
    Exported =>
        /\ out.status = "200"
        /\ returned = last_items(matching(records_of(ndjson), out.args), out.args.limit)

\* s is a subsequence of t
RECURSIVE IsSubseq(_, _)
IsSubseq(s, t) ==
    IF s = <<>> THEN TRUE
    ELSE IF t = <<>> THEN FALSE
    ELSE IF s[1] = t[1] THEN IsSubseq(Tail(s), Tail(t))
    ELSE IsSubseq(s, Tail(t))

canonical(k) ==
    IF \E n \in RtNames : k[1] \in Spellings(n)
    THEN K(CHOOSE n \in RtNames : k[1] \in Spellings(n))
    ELSE k

\* the query q with every parameter under its canonical name
canonical_query(q) ==
    [c \in {canonical(k) : k \in DOMAIN q} |->
        q[CHOOSE k \in DOMAIN q : canonical(k) = c]]

\* C21: a single-event push whose parameters carry non-empty PIN and Time
\* values under any letter case yields the event the canonical spelling yields.
C21_AnyLetterCase ==
    (/\ out.call = "iclock_rtlog"
     /\ out.body = <<>>
     /\ truthy(get(canonical_query(out.query), K("PIN")))
     /\ truthy(get(canonical_query(out.query), K("Time"))))
        => out.event = parse_rtlog(canonical_query(out.query))

\* the names the single-event parse reads that the query string and the
\* form-decoded body of the latest push both carry
conflicts ==
    (DOMAIN out.query \cap DOMAIN parse_qs(out.body))
        \cap {K(w) : w \in UNION {Spellings(n) : n \in RtNames}}

\* C22: when a single-event push carries a name both in its query string and
\* in its form-decoded body, the event it yields is the event of the merged
\* parameters, the query's value standing for that name.
C22_QueryValueWins ==
    (out.call = "iclock_rtlog" /\ conflicts # {} /\ out.event # None)
        => out.event = parse_rtlog(merge_form(out.query, parse_qs(out.body)))

\* C23: every entry appended to the record log carries, as ts_ingest, the
\* timestamp of the raw capture of the request that produced it.
C23_IngestStampIsCaptureStamp ==
    [][\A p \in Procs :
          AppendNdjson(p) =>
              ndjson'[Len(ndjson')].ts_ingest = Str(ts_text(loc[p].ts))]_vars

\* C24: a candidate line that is empty or made of commas and whitespace
\* only, in any arrangement, yields no event.
C24_BlankLineNoEvent ==
    (/\ out.call = "parse_attlog_line"
     /\ \A i \in 1..Len(out.line) : out.line[i] \in WS \cup {","})
        => out.result = None

\* the timestamp text v can be normalized
normalizable(v) == iso_ok(replace(join(split_ws(v), <<" ">>), " ", "T"))

\* the fields of a candidate line in its encoding, the line taken without its
\* trailing whitespace and commas
fields_of(line) ==
    LET trimmed == rstrip_set(rstrip(line), {","}) IN
    IF contains(trimmed, "\t") /\ ~contains(trimmed, ",")
    THEN split(trimmed, "\t") ELSE split(trimmed, ",")

\* C25: a candidate line, and a single-event parameter set, that carries a
\* user and a timestamp text that cannot be normalized yields exactly one
\* event, whose timestamp is that text unchanged.
C25_RawStampKept ==
    /\ out.call = "parse_attlog_line" =>
          LET f == fields_of(out.line) IN
          (/\ Len(f) >= 2
           /\ strip(f[1]) # <<>>
           /\ strip(f[2]) # <<>>
           /\ ~normalizable(f[2]))
              => Len(out.result) = 1 /\ out.result[1].timestamp = Str(f[2])
    /\ (out.call = "iclock_rtlog" /\ out.body = <<>>) =>
          LET q == canonical_query(out.query) IN
          (/\ truthy(get(q, K("PIN")))
           /\ truthy(get(q, K("Time")))
           /\ ~normalizable(get(q, K("Time"))[1]))
              => Len(out.event) = 1 /\ out.event[1].timestamp = get(q, K("Time"))

\* the candidate lines _maybe_parse_attlog reads for a request, in the order
\* it reads them
candidate_lines(query, bt) ==
    (IF table_is_attlog(query)
     THEN LET v == get(query, K("ATTLOG")) IN
          all_lines(IF Len(v) >= 2 THEN v
                    ELSE IF truthy(v) THEN <<v[1]>> ELSE <<>>)
     ELSE <<>>)
    \o (IF has_marker(bt) THEN marker_lines(splitlines(bt))
        ELSE IF table_is_attlog(query) /\ (contains(bt, "\t") \/ contains(bt, "\n"))
        THEN splitlines(bt)
        ELSE <<>>)

\* the candidate lines that yield an event
valid_lines(lines) == {i \in 1..Len(lines) : parse_attlog_line(lines[i]) # None}

\* the event of a journal entry, as the line parser built it
parsed_event(entry) ==
    [user_id |-> entry.user_id, timestamp |-> entry.timestamp,
     status |-> entry.status, punch |-> entry.punch,
     workcode |-> entry.workcode, ext |-> entry.ext]

\* C26: when the handler of a bulk push reaches its answer, the events it has
\* journaled are the events of the candidate lines that yield one, as many
\* entries as there are such lines; a push fails at a file operation only.
C26_InvalidLinesSkipped ==
    /\ (pc[SRV] = "respond" /\ loc[SRV].path = CDATA) =>
          LET lines == candidate_lines(loc[SRV].q, loc[SRV].body)
              a == loc[SRV].appended
          IN /\ Len(a) = Cardinality(valid_lines(lines))
             /\ {parsed_event(ndjson[a[i]]) : i \in 1..Len(a)}
                    = {parse_attlog_line(lines[i])[1] : i \in valid_lines(lines)}
    /\ hist[SRV].resp = "500" => hist[SRV].failed_at \in IOSteps

\* a push whose two event lines are separated by a line of commas has
\* reached its answer with both events journaled
C26_Witness ==
    /\ pc[SRV] = "respond"
    /\ loc[SRV].body = LineTsv \o <<"\n", ",", ",", "\n">> \o LineCsv \o <<"\n">>
    /\ Len(loc[SRV].appended) = 2
    /\ Len(ndjson) = 2

\* the events of the lines that yield one, in the order of the lines
RECURSIVE line_events(_)
line_events(lines) ==
    IF lines = <<>> THEN <<>>
    ELSE LET e == parse_attlog_line(Head(lines)) IN
         (IF e = None THEN <<>> ELSE <<e[1]>>) \o line_events(Tail(lines))

\* C27: no step moves an entry of the record log, and whenever a bulk push
\* appends an entry, the entries it has appended so far stand in the record
\* log in the order of their candidate lines, whatever other appends fall
\* between them.
C27_LineOrderKept ==
    [][/\ IsPrefix(ndjson, ndjson')
       /\ \A p \in Procs :
             (AppendNdjson(p) /\ loc[p].path = CDATA) =>
                 LET a == loc'[p].appended IN
                 /\ \A i \in 1..Len(a) : a[i] <= Len(ndjson')
                 /\ \A i, j \in 1..Len(a) : i < j => a[i] < a[j]
                 /\ IsPrefix([i \in 1..Len(a) |-> parsed_event(ndjson'[a[i]])],
                             line_events(candidate_lines(loc[p].q, loc[p].body)))]_vars

\* the server has appended the two events of a push, and an entry of the
\* replay stands between them in the record log
C27_Witness ==
    /\ loc[SRV].path = CDATA
    /\ Len(loc[SRV].appended) = 2
    /\ loc[SRV].appended[2] > loc[SRV].appended[1] + 1
    /\ ndjson[loc[SRV].appended[1]].user_id # ndjson[loc[SRV].appended[2]].user_id

\* the fields of the exported event f in header order, as text
in_header_order(f) == [k \in 1..Len(csv_header) |-> csv_text(f[csv_header[k][1]])]

\* the rows rows are the events items, one for one, in header order
rows_are(rows, items) ==
    /\ Len(rows) = Len(items)
    /\ \A i \in 1..Len(rows) : rows[i] = in_header_order(items[i])

\* C28: over the same record log, filters and limit, the tabular export
\* answers as the structured export does, and the rows under its header are
\* the structured export's events, in the same order, fields in header order.
C28_ExportsAgree ==
    /\ out.call = "export_csv" =>
          LET j == export_json_response(ndjson, out.args) IN
          /\ out.status = j.status
          /\ out.status = "200" =>
                out.items[1] = csv_header /\ rows_are(Tail(out.items), j.items)
    /\ out.call = "export_json" =>
          LET c == export_csv_response(ndjson, out.args) IN
          /\ out.status = c.status
          /\ out.status = "200" =>
                c.items[1] = csv_header /\ rows_are(Tail(c.items), out.items)

\* the tabular export has answered with the last two of three matching
\* events, filtered by user and cut by the limit
C28_Witness ==
    /\ out.call = "export_csv"
    /\ out.status = "200"
    /\ truthy(out.args.user_id)
    /\ out.args.limit = 2
    /\ Len(ndjson) = 3
    /\ Len(out.items) = 3
    /\ Len(scan(ndjson, out.args)) = 3

====
